---- MODULE Spec2Model ----
(***************************************************************************)
(* Signal-to-order pipeline of the Bitget trading webhook (src/app.py):    *)
(* execute_entry_trade and execute_exit_trade run in request threads under *)
(* position_lock, the Telegram command thread resets the statistics, and   *)
(* the exchange fills and closes orders on its own.                        *)
(*                                                                         *)
(* Spec is the signal handlers and the exchange.  SpecOps adds the          *)
(* operator's /R command, statement by statement, and restarts of the      *)
(* process.  FairSpec is the request threads under weak fairness.  SpecLev *)
(* evaluates calculate_leverage on its own.                                *)
(*                                                                         *)
(* Units: a signal carries prices in thousandths; round(x, 2) turns them   *)
(* into hundredths (Round2).  Sizes are in thousandths of a contract.      *)
(* Balances are whole USDT.  Arithmetic is exact (no float error).         *)
(***************************************************************************)
EXTENDS Integers, Sequences, FiniteSets, TLC

VARIABLES
    pc,                \* position of each request thread in its handler
    data,              \* the signal (webhook JSON) each thread is handling
    loc,               \* the handler's local variables
    position_lock,     \* holder of threading.Lock(), or NoThread
    current_position,  \* advisory record (global), NoPosition when None
    stats,             \* TradingStats instance in memory
    snapshot,          \* contents of STATS_FILE
    orders,            \* exchange: limit orders placed by the system
    ext,               \* exchange: symbols with a position opened by hand
    cmd,               \* position of the Telegram command thread
    tr,                \* history: what each thread's transition in progress has done
    res,               \* history: the transition that ended last, until the next begins
    lastLev,           \* history: the latest set_leverage call of the transitions in progress
    nSignals,          \* signals, operator commands and restarts so far
    saved,             \* history: the ledger as the latest completed save wrote it
    calc,              \* one evaluation of calculate_leverage: inputs and outputs
    since              \* history: the symbol of the latest EXIT that recorded a trade,
                       \* and whether an ENTRY has succeeded since

vars == <<pc, data, loc, position_lock, current_position, stats, snapshot,
          orders, ext, cmd, tr, res, lastLev, nSignals, saved, calc, since>>

----------------------------------------------------------------------------
(* Bounds and inputs *)

MaxSignals == 2

\* calculate_leverage on its own: entry prices (hundredths) and stop
\* distances 0, Step, 2 Step, ... MaxSteps Step on either side
LevEntries == {5000, 10000}
Step == 25
MaxSteps == 70

\* the ledger on its own: trades added, and the profit rates they carry
MaxTrades == 3
RateInputs == {-3000, 3000}

Workers == {"w1", "w2"}
Before(u, t) == u = "w1" /\ t = "w2"
NoThread == "none"

Symbols == {"BTCUSDT", "ETHUSDT"}
NonStr == "nonstr"             \* a symbol field that is not a string

BAD == -1                      \* a numeric field float() cannot parse
PriceInputs == {BAD, 0, 100000}
SlInputs == {95000, 99704}
TpInputs == {110000}
ExitPriceInputs == {BAD, 90000, 105000, 110000}
ResultInputs == {"profit", "LOSS"}   \* data['result'] as sent
Balances == {5, 1000}          \* available USDT; a failed query reads 0.0, below the minimum too
ExtSymbols == {"BTCUSDT"}     \* where the trader opens positions by hand
ExtPosition == [openPriceAvg |-> 9000, leverage |-> 5]  \* a hand-opened position

----------------------------------------------------------------------------
(* Program constants *)

LOSS_RATIO == 15
MAX_LEVERAGE == 30
MIN_BALANCE == 10
SAFETY_PERCENT == 95
MIN_SIZE == 1

----------------------------------------------------------------------------
(* Values *)

NoSignal ==
    [action |-> "", symbol |-> "", price |-> 0, tp |-> 0, sl |-> 0,
     exit_price |-> 0, result |-> ""]

\* ENTRY: symbol, price, tp, sl.  A price float() rejects or a zero price
\* ends the handler before sl is read, so one sl stands for all there.
EntrySignals ==
    {[action |-> "ENTRY", symbol |-> s, price |-> p, tp |-> q, sl |-> l,
      exit_price |-> 0, result |-> ""] :
        s \in Symbols, p \in PriceInputs, q \in TpInputs, l \in SlInputs}

\* EXIT: symbol, exit_price, result
ExitSignals ==
    {[action |-> "EXIT", symbol |-> s, price |-> 0, tp |-> 0, sl |-> 0,
      exit_price |-> x, result |-> r] :
        s \in Symbols, x \in ExitPriceInputs, r \in ResultInputs}

\* the same with a symbol field that is not a string
NonStrSignals ==
    {[action |-> "ENTRY", symbol |-> NonStr, price |-> 100000, tp |-> 110000,
      sl |-> 95000, exit_price |-> 0, result |-> ""],
     [action |-> "EXIT", symbol |-> NonStr, price |-> 0, tp |-> 0, sl |-> 0,
      exit_price |-> 90000, result |-> "LOSS"]}

Signals ==
    {d \in EntrySignals : d.price = 100000 \/ d.sl = 95000} \cup
    {d \in ExitSignals : d.exit_price # BAD \/ d.result = "LOSS"} \cup
    NonStrSignals

NoPosition ==
    [symbol |-> "", entry_price |-> 0, tp_price |-> 0, sl_price |-> 0,
     size |-> 0, leverage |-> 0, order_id |-> 0, balance_used |-> 0]

NoLocals ==
    [entry_price |-> 0, tp_price |-> 0, sl_price |-> 0, leverage |-> 0,
     position_size |-> 0, position_value |-> 0, exit_price |-> 0,
     result |-> "", profit_rate |-> 0]

FreshStats == [wins |-> 0, losses |-> 0, total_trades |-> 0, trades_history |-> <<>>]

\* STATS_FILE: missing, opened for writing and not written yet, or written
NoFile == [kind |-> "absent", bytes |-> <<>>]
EmptyFile == [kind |-> "empty", bytes |-> <<>>]

\* no EXIT has recorded a trade and no ENTRY has succeeded
NoSince == [recorded |-> "", entered |-> FALSE]

\* history of one transition: its thread, the signal's action and symbol, the
\* exchange calls made and how each ended, the balance fetched, the leverage
\* before clamping, whether an ENTRY had succeeded with no EXIT since when it
\* began, the latest recording EXIT and ENTRY success since as they stood
\* when it began, the writes to the advisory record and to the ledger, the
\* notifications sent, the result returned, what the EXIT lookup found (entry
\* price and leverage from the listing, the leverage field as the listing
\* supplied it (0 when it did not), symbol of the advisory record), what
\* the EXIT recorded (the result field as sent, the exit price, the entry
\* price and leverage it settled on, the take-profit price of the advisory
\* record for the symbol, the trade result and the profit rate), and the
\* latest set_leverage call seen when the order was sent with its arguments
\* (symbol and leverage, size, price); for a status request, the win rate
\* it returned
NoTrace ==
    [by |-> NoThread, action |-> "", symbol |-> "", calls |-> {},
     posQ |-> "none", levQ |-> "none", bal |-> -1, derived |-> 0,
     startOpen |-> FALSE, begun |-> NoSince, advW |-> 0, mut |-> 0, notes |-> 0,
     status |-> "", reason |-> "",
     qEntry |-> 0, qLev |-> 0, supLev |-> 0, advFor |-> "",
     declared |-> "", exit |-> 0, entry |-> 0, lev |-> 0, tp |-> 0,
     trade |-> "", rate |-> 0, ordSize |-> 0, ordPrice |-> 0, win_rate |-> 0,
     ordSeen |-> [by |-> NoThread, symbol |-> "", leverage |-> 0],
     ordArg |-> [symbol |-> "", leverage |-> 0]]

NoLev == [by |-> NoThread, symbol |-> "", leverage |-> 0]

\* calculate_leverage not evaluated
NoCalc == [entry_price |-> 0, sl_near |-> 0, sl_far |-> 0,
           near |-> 0, far |-> 0, done |-> FALSE]

Abs(x) == IF x < 0 THEN -x ELSE x
Min(a, b) == IF a < b THEN a ELSE b
Max(a, b) == IF a > b THEN a ELSE b

----------------------------------------------------------------------------
(* Pure functions *)

\* str.upper() on the values the result field takes
upper(r) ==
    CASE r = "profit" -> "PROFIT"
      [] r = "loss" -> "LOSS"
      [] OTHER -> r

\* pickle.dump(self, f): the instance's attributes, name by name
pickle_dump(st) ==
    <<<<"wins", st.wins>>, <<"losses", st.losses>>,
      <<"total_trades", st.total_trades>>,
      <<"trades_history", st.trades_history>>>>

\* pickle.load(f): the instance rebuilt from the attributes written
Attribute(bytes, name) ==
    bytes[CHOOSE i \in 1..Len(bytes) : bytes[i][1] = name][2]

pickle_load_SwapsCounters(bytes) ==
    [wins |-> Attribute(bytes, "losses"), losses |-> Attribute(bytes, "wins"),
     total_trades |-> Attribute(bytes, "total_trades"),
     trades_history |-> Attribute(bytes, "trades_history")]
pickle_load(bytes) ==
    [wins |-> Attribute(bytes, "wins"), losses |-> Attribute(bytes, "losses"),
     total_trades |-> Attribute(bytes, "total_trades"),
     trades_history |-> Attribute(bytes, "trades_history")]

\* TradingStats.save with the write succeeding: what the file holds after it
save(st) == [kind |-> "written", bytes |-> pickle_dump(st)]

\* TradingStats.load: the file's ledger, or a fresh one when the file is
\* missing or pickle.load raises on it
load_AlwaysFresh(file) == FreshStats
load(file) ==
    IF file.kind = "written" THEN pickle_load(file.bytes) ELSE FreshStats

\* round(float(x), 2): thousandths to the nearest hundredth
Round2(m) == (m + 5) \div 10

\* int(LOSS_RATIO / risk_percent), risk_percent = |entry - sl| / entry * 100
DerivedLeverage(entry_price, sl_price) ==
    (LOSS_RATIO * entry_price) \div (100 * Abs(entry_price - sl_price))

calculate_leverage_ZeroRiskCap(entry_price, sl_price) ==
    IF entry_price = sl_price
    THEN MAX_LEVERAGE
    ELSE Max(1, Min(DerivedLeverage(entry_price, sl_price), MAX_LEVERAGE))
calculate_leverage_NoFloor(entry_price, sl_price) ==
    IF entry_price = sl_price
    THEN 1
    ELSE Min(DerivedLeverage(entry_price, sl_price), MAX_LEVERAGE)
calculate_leverage(entry_price, sl_price) ==
    IF entry_price = sl_price
    THEN 1
    ELSE Max(1, Min(DerivedLeverage(entry_price, sl_price), MAX_LEVERAGE))

\* round(balance * 0.95 * leverage / entry_price, 3), in thousandths
\* = balance * 95 * leverage * 1000 / entry_price(hundredths), to the nearest
\* unit, computed by parts to stay inside 32-bit integers
PositionSize_NoSafety(balance, leverage, entry_price) ==
    LET n == balance * 100 * leverage * 10
    IN (n \div entry_price) * 100
         + (2 * (n % entry_price) * 100 + entry_price) \div (2 * entry_price)
PositionSize(balance, leverage, entry_price) ==
    LET n == balance * SAFETY_PERCENT * leverage * 10
    IN (n \div entry_price) * 100
         + (2 * (n % entry_price) * 100 + entry_price) \div (2 * entry_price)

\* balance * 0.95, whole USDT
PositionValue(balance) == (balance * SAFETY_PERCENT) \div 100

\* ((exit - entry) / entry) * 100 * leverage, in hundredths of a percent
ProfitRate_NoLeverage(exit_price, entry_price, leverage) ==
    ((exit_price - entry_price) * 10000) \div entry_price
ProfitRate(exit_price, entry_price, leverage) ==
    ((exit_price - entry_price) * 10000 * leverage) \div entry_price

----------------------------------------------------------------------------
(* The exchange *)

FilledOn(s) == {i \in 1..Len(orders) : orders[i].symbol = s /\ orders[i].st = "filled"}

PosOpen(s) == s \in ext \/ FilledOn(s) # {}

\* the position the exchange holds on s: open price and leverage
PosOf(s) ==
    IF FilledOn(s) # {}
    THEN LET i == CHOOSE j \in FilledOn(s) : \A k \in FilledOn(s) : j <= k
         IN [openPriceAvg |-> orders[i].price, leverage |-> orders[i].leverage]
    ELSE ExtPosition

\* What GET /position/allPosition can answer for a symbol: no request at all
\* (symbol.replace raised inside the try), a failed request, or the listing,
\* whose entries may lack the open price or the leverage (0 = absent).
PositionResponses(symbol) ==
    IF symbol = NonStr
    THEN {[sent |-> FALSE, ok |-> FALSE, list |-> <<>>]}
    ELSE {[sent |-> TRUE, ok |-> FALSE, list |-> <<>>]} \cup
         IF PosOpen(symbol)
         THEN {[sent |-> TRUE, ok |-> TRUE,
                list |-> <<[openPriceAvg |-> p, leverage |-> l]>>] :
                   p \in {0, PosOf(symbol).openPriceAvg},
                   l \in {0, PosOf(symbol).leverage}}
         ELSE {[sent |-> TRUE, ok |-> TRUE, list |-> <<>>]}

\* BitgetFuturesClient.get_positions: any failure is logged and becomes []
get_positions(resp) == IF resp.ok THEN resp.list ELSE <<>>

PosQ(resp) ==
    IF ~resp.sent THEN "nosend"
    ELSE IF ~resp.ok THEN "fail"
    ELSE IF resp.list = <<>> THEN "empty" ELSE "nonempty"

----------------------------------------------------------------------------
(* Decisions of the handlers *)

\* `with position_lock`: the block is entered when no thread holds the lock
CanAcquire_NoLock == TRUE
CanAcquire == position_lock = NoThread

\* `if positions and len(positions) > 0`
PositionsNonEmpty_OffByOne(positions) == Len(positions) > 1
PositionsNonEmpty_OrLocal(positions) ==
    Len(positions) > 0 \/ current_position # NoPosition
PositionsNonEmpty(positions) == Len(positions) > 0

\* `if current_position and current_position.get('symbol') == symbol`
AdvisoryMatches_AnySymbol(symbol) == current_position # NoPosition
AdvisoryMatches(symbol) ==
    current_position # NoPosition /\ current_position.symbol = symbol

\* `if not entry_price or not leverage`
Unresolved(entry_price, leverage) == entry_price = 0 \/ leverage = 0

\* `if result == 'PROFIT' or (entry_price and exit_price >= entry_price)`
IsWin_ResultOnly(result, entry_price, exit_price) == result = "PROFIT"
IsWin(result, entry_price, exit_price) ==
    result = "PROFIT" \/ exit_price >= entry_price

----------------------------------------------------------------------------
(* Initial state *)

Init ==
    /\ pc = [t \in Workers |-> "idle"]
    /\ data = [t \in Workers |-> NoSignal]
    /\ loc = [t \in Workers |-> NoLocals]
    /\ position_lock = NoThread
    /\ current_position = NoPosition
    /\ snapshot = NoFile
    /\ stats = load(snapshot)
    /\ saved = FreshStats
    /\ calc = NoCalc
    /\ since = NoSince
    /\ orders = <<>>
    /\ ext = {}
    /\ cmd = "idle"
    /\ tr = [t \in Workers |-> NoTrace]
    /\ res = NoTrace
    /\ lastLev = NoLev
    /\ nSignals = 0

----------------------------------------------------------------------------
(* Helpers of the actions *)

\* leave the `with position_lock` block and return a result
Finish_KeepsLock(t, q, status, reason, notes) ==
    /\ pc' = [pc EXCEPT ![t] = "idle"]
    /\ position_lock' = position_lock
    /\ data' = [data EXCEPT ![t] = NoSignal]
    /\ loc' = [loc EXCEPT ![t] = NoLocals]
    /\ lastLev' = NoLev
    /\ tr' = [tr EXCEPT ![t] = NoTrace]
    /\ res' = [q EXCEPT !.status = status, !.reason = reason,
                        !.notes = q.notes + notes]
Finish(t, q, status, reason, notes) ==
    /\ pc' = [pc EXCEPT ![t] = "idle"]
    /\ position_lock' = NoThread
    /\ data' = [data EXCEPT ![t] = NoSignal]
    /\ loc' = [loc EXCEPT ![t] = NoLocals]
    /\ lastLev' = NoLev
    /\ tr' = [tr EXCEPT ![t] = NoTrace]
    /\ res' = [q EXCEPT !.status = status, !.reason = reason,
                        !.notes = q.notes + notes]

\* history: an ENTRY has succeeded and no EXIT has been processed since
MachineOpen == \E i \in 1..Len(orders) : ~orders[i].exited

\* history: a transition begins
Begin(t, d) ==
    [NoTrace EXCEPT !.by = t, !.action = d.action, !.symbol = d.symbol,
                    !.startOpen = MachineOpen, !.begun = since]

\* history: an EXIT has been processed; orders that are both closed and
\* followed by an EXIT are forgotten
MarkExited(os) ==
    LET live == SelectSeq(os, LAMBDA o : o.st # "closed")
    IN [i \in 1..Len(live) |-> [live[i] EXCEPT !.exited = TRUE]]

----------------------------------------------------------------------------
(* webhook(): a request thread receives a signal *)

\* The route picks the handler by data['action'].  The other fields of the
\* signal are inputs nothing reads before the handler holds the lock: they
\* are drawn there, when the handler first reads them.
Receive(t) ==
    /\ pc[t] = "idle"
    /\ \A u \in Workers : Before(u, t) => pc[u] # "idle"
    /\ nSignals < MaxSignals
    /\ \E a \in {"ENTRY", "EXIT"} :
          /\ data' = [data EXCEPT ![t] = [NoSignal EXCEPT !.action = a]]
          /\ pc' = [pc EXCEPT ![t] = IF a = "ENTRY" THEN "e_lock" ELSE "x_lock"]
    /\ nSignals' = nSignals + 1
    /\ UNCHANGED <<loc, position_lock, current_position, stats, snapshot,
                   orders, ext, cmd, tr, res, lastLev, saved, calc, since>>

----------------------------------------------------------------------------
(* execute_entry_trade *)

EntryAcquire(t) ==
    /\ pc[t] = "e_lock"
    /\ CanAcquire
    /\ \E d \in {x \in Signals : x.action = "ENTRY"} :
          /\ data' = [data EXCEPT ![t] = d]
          /\ tr' = [tr EXCEPT ![t] = Begin(t, d)]
    /\ position_lock' = t
    /\ pc' = [pc EXCEPT ![t] = "e_getpos"]
    /\ res' = NoTrace
    /\ UNCHANGED <<loc, current_position, stats, snapshot, orders, ext, cmd,
                   lastLev, nSignals, saved, calc, since>>

\* get_positions, the existence check, parsing and calculate_leverage
EntryGetPositions(t) ==
    /\ pc[t] = "e_getpos"
    /\ \E resp \in PositionResponses(data[t].symbol) :
        LET positions == get_positions(resp)
            q == [tr[t] EXCEPT !.posQ = PosQ(resp),
                               !.calls = IF resp.sent THEN @ \cup {"get_positions"} ELSE @]
            d == data[t]
        IN IF PositionsNonEmpty(positions)
           THEN Finish(t, q, "ignored", "position_exists_on_exchange", 1)
           ELSE IF BAD \in {d.price, d.tp, d.sl}
           THEN \* float() raises ValueError: the outer handler
                Finish(t, q, "error", "exception", 1)
           ELSE LET entry_price == Round2(d.price)
                    tp_price == Round2(d.tp)
                    sl_price == Round2(d.sl)
                IN IF entry_price = 0
                   THEN \* calculate_leverage divides by entry_price
                        Finish(t, q, "error", "exception", 1)
                   ELSE LET leverage == calculate_leverage(entry_price, sl_price)
                            q2 == [q EXCEPT !.derived =
                                      IF entry_price = sl_price THEN 1
                                      ELSE DerivedLeverage(entry_price, sl_price)]
                        IN IF leverage > MAX_LEVERAGE
                           THEN Finish(t, q2, "rejected", "leverage_too_high", 1)
                           ELSE /\ pc' = [pc EXCEPT ![t] = "e_setlev"]
                                /\ tr' = [tr EXCEPT ![t] = q2]
                                /\ loc' = [loc EXCEPT ![t].entry_price = entry_price,
                                                      ![t].tp_price = tp_price,
                                                      ![t].sl_price = sl_price,
                                                      ![t].leverage = leverage]
                                /\ UNCHANGED <<position_lock, data, lastLev, res>>
    /\ UNCHANGED <<current_position, stats, snapshot, orders, ext, cmd,
                   nSignals, saved, calc, since>>

\* the order is sent without the set_leverage step
EntrySetLeverage_Skipped(t) ==
    /\ pc[t] = "e_setlev"
    /\ pc' = [pc EXCEPT ![t] = "e_balance"]
    /\ UNCHANGED <<data, loc, position_lock, current_position, stats,
                   snapshot, orders, ext, cmd, tr, res, lastLev, nSignals,
                   saved, calc, since>>

\* bitget.set_leverage(symbol, leverage): a failed request is logged and
\* returns None; only symbol.replace on a non-string raises to the caller
EntrySetLeverage(t) ==
    /\ pc[t] = "e_setlev"
    /\ IF data[t].symbol = NonStr
       THEN Finish(t, tr[t], "error", "set_leverage_raised", 1)
       ELSE \E ok \in BOOLEAN :
            /\ lastLev' = [by |-> t, symbol |-> data[t].symbol,
                           leverage |-> loc[t].leverage]
            /\ tr' = [tr EXCEPT ![t].calls = @ \cup {"set_leverage"},
                                ![t].levQ = IF ok THEN "ok" ELSE "fail"]
            /\ pc' = [pc EXCEPT ![t] = "e_balance"]
            /\ UNCHANGED <<position_lock, data, loc, res>>
    /\ UNCHANGED <<current_position, stats, snapshot, orders, ext, cmd,
                   nSignals, saved, calc, since>>

\* get_available_balance (0.0 on any failure) and the size computation
EntryGetBalance(t) ==
    /\ pc[t] = "e_balance"
    /\ \E balance \in Balances :
        LET q == [tr[t] EXCEPT !.calls = @ \cup {"get_balance"}, !.bal = balance]
        IN IF balance < MIN_BALANCE
           THEN Finish(t, q, "error", "exception", 1)
           ELSE LET position_size ==
                        PositionSize(balance, loc[t].leverage, loc[t].entry_price)
                IN IF position_size < MIN_SIZE
                   THEN Finish(t, q, "error", "exception", 1)
                   ELSE /\ pc' = [pc EXCEPT ![t] = "e_order"]
                        /\ tr' = [tr EXCEPT ![t] = q]
                        /\ loc' = [loc EXCEPT ![t].position_size = position_size,
                                              ![t].position_value = PositionValue(balance)]
                        /\ UNCHANGED <<position_lock, data, lastLev, res>>
    /\ UNCHANGED <<current_position, stats, snapshot, orders, ext, cmd,
                   nSignals, saved, calc, since>>

\* place_limit_order (None on any failure), then the advisory record
EntryPlaceOrder_RecordsFirst(t) ==
    /\ pc[t] = "e_order"
    /\ \E ok \in BOOLEAN :
        LET q == [tr[t] EXCEPT !.calls = @ \cup {"place_order"},
                               !.ordSeen = lastLev,
                               !.ordArg = [symbol |-> data[t].symbol,
                                           leverage |-> loc[t].leverage],
                               !.ordSize = loc[t].position_size,
                               !.ordPrice = loc[t].entry_price]
        IN IF ~ok
           THEN /\ Finish(t, q, "error", "exception", 1)
                /\ current_position' =
                      [symbol |-> data[t].symbol, entry_price |-> loc[t].entry_price,
                       tp_price |-> loc[t].tp_price, sl_price |-> loc[t].sl_price,
                       size |-> loc[t].position_size, leverage |-> loc[t].leverage,
                       order_id |-> 0,
                       balance_used |-> loc[t].position_value]
                /\ UNCHANGED <<orders, since>>
           ELSE /\ since' = [since EXCEPT !.entered = TRUE]
                /\ orders' = Append(orders,
                      [symbol |-> data[t].symbol, price |-> loc[t].entry_price,
                       leverage |-> loc[t].leverage, st |-> "resting",
                       exited |-> FALSE])
                /\ current_position' =
                      [symbol |-> data[t].symbol, entry_price |-> loc[t].entry_price,
                       tp_price |-> loc[t].tp_price, sl_price |-> loc[t].sl_price,
                       size |-> loc[t].position_size, leverage |-> loc[t].leverage,
                       order_id |-> 1,
                       balance_used |-> loc[t].position_value]
                /\ Finish(t, [q EXCEPT !.advW = @ + 1], "success", "", 1)
    /\ UNCHANGED <<stats, snapshot, ext, cmd, nSignals, saved, calc>>
EntryPlaceOrder(t) ==
    /\ pc[t] = "e_order"
    /\ \E ok \in BOOLEAN :
        LET q == [tr[t] EXCEPT !.calls = @ \cup {"place_order"},
                               !.ordSeen = lastLev,
                               !.ordArg = [symbol |-> data[t].symbol,
                                           leverage |-> loc[t].leverage],
                               !.ordSize = loc[t].position_size,
                               !.ordPrice = loc[t].entry_price]
        IN IF ~ok
           THEN /\ Finish(t, q, "error", "exception", 1)
                /\ UNCHANGED <<orders, current_position, since>>
           ELSE /\ since' = [since EXCEPT !.entered = TRUE]
                /\ orders' = Append(orders,
                      [symbol |-> data[t].symbol, price |-> loc[t].entry_price,
                       leverage |-> loc[t].leverage, st |-> "resting",
                       exited |-> FALSE])
                /\ current_position' =
                      [symbol |-> data[t].symbol, entry_price |-> loc[t].entry_price,
                       tp_price |-> loc[t].tp_price, sl_price |-> loc[t].sl_price,
                       size |-> loc[t].position_size, leverage |-> loc[t].leverage,
                       order_id |-> 1,
                       balance_used |-> loc[t].position_value]
                /\ Finish(t, [q EXCEPT !.advW = @ + 1], "success", "", 1)
    /\ UNCHANGED <<stats, snapshot, ext, cmd, nSignals, saved, calc>>

----------------------------------------------------------------------------
(* execute_exit_trade *)

\* `with position_lock`, then the parsing of exit_price
ExitAcquire(t) ==
    /\ pc[t] = "x_lock"
    /\ CanAcquire
    /\ \E d \in {x \in Signals : x.action = "EXIT"} :
         IF d.exit_price = BAD
         THEN \* float() raises ValueError: the handler logs and returns
              /\ Finish(t, Begin(t, d), "error", "exception", 0)
              /\ orders' = MarkExited(orders)
         ELSE /\ position_lock' = t
              /\ pc' = [pc EXCEPT ![t] = "x_getpos"]
              /\ data' = [data EXCEPT ![t] = d]
              /\ tr' = [tr EXCEPT ![t] = Begin(t, d)]
              /\ res' = NoTrace
              /\ loc' = [loc EXCEPT ![t].exit_price = Round2(d.exit_price)]
              /\ UNCHANGED <<orders, lastLev>>
    /\ UNCHANGED <<current_position, stats, snapshot, ext, cmd, nSignals,
                   saved, calc, since>>

\* TradingStats.get_win_rate, in hundredths of a percent
get_win_rate_OverNext(st) ==
    IF st.total_trades = 0 THEN 0 ELSE (st.wins * 10000) \div (st.total_trades + 1)
get_win_rate(st) ==
    IF st.total_trades = 0 THEN 0 ELSE (st.wins * 10000) \div st.total_trades

\* TradingStats.reset
reset(st) ==
    [st EXCEPT !.wins = 0, !.losses = 0, !.total_trades = 0,
               !.trades_history = <<>>]

\* TradingStats.add_trade, statement by statement
add_trade_total(st) == [st EXCEPT !.total_trades = @ + 1]

add_trade_count(st, result) ==
    IF result = "WIN"
    THEN [st EXCEPT !.wins = @ + 1]
    ELSE [st EXCEPT !.losses = @ + 1]

add_trade_append_Replaces(st, result, profit_rate, symbol) ==
    [st EXCEPT !.trades_history =
         <<[symbol |-> symbol, result |-> result, profit_rate |-> profit_rate]>>]
add_trade_append(st, result, profit_rate, symbol) ==
    [st EXCEPT !.trades_history = Append(@,
         [symbol |-> symbol, result |-> result, profit_rate |-> profit_rate])]

\* what the first listed position supplies: the open price (0 when absent)
\* and the leverage (`or 1` when absent); nothing when the listing is empty
ExchangeEntryPrice(positions) ==
    IF positions # <<>> THEN positions[1].openPriceAvg ELSE 0

ExchangeLeverage(positions) ==
    IF positions # <<>>
    THEN (IF positions[1].leverage = 0 THEN 1 ELSE positions[1].leverage)
    ELSE 0

\* `x or current_position.get(...)` when the record is for the symbol
FillGap(symbol, x, recorded) ==
    IF AdvisoryMatches(symbol) /\ x = 0 THEN recorded ELSE x

\* get_positions, the advisory fallback, and either the warning or add_trade
ExitGetPositions(t) ==
    /\ pc[t] = "x_getpos"
    /\ \E resp \in PositionResponses(data[t].symbol) :
        LET positions == get_positions(resp)
            symbol == data[t].symbol
            x_entry == ExchangeEntryPrice(positions)
            x_lev == ExchangeLeverage(positions)
            entry_price == FillGap(symbol, x_entry, current_position.entry_price)
            leverage == FillGap(symbol, x_lev, current_position.leverage)
            q == [tr[t] EXCEPT
                    !.posQ = PosQ(resp),
                    !.calls = IF resp.sent THEN @ \cup {"get_positions"} ELSE @,
                    !.qEntry = x_entry, !.qLev = x_lev,
                    !.supLev = IF positions # <<>> THEN positions[1].leverage ELSE 0,
                    !.advFor = current_position.symbol]
        IN IF Unresolved(entry_price, leverage)
           THEN /\ Finish(t, q, "warning", "details_unavailable", 1)
                /\ orders' = MarkExited(orders)
           ELSE LET profit_rate == ProfitRate(loc[t].exit_price, entry_price, leverage)
                    trade_result == IF IsWin(upper(data[t].result), entry_price,
                                             loc[t].exit_price)
                                    THEN "WIN" ELSE "LOSS"
                IN /\ loc' = [loc EXCEPT ![t].entry_price = entry_price,
                                         ![t].leverage = leverage,
                                         ![t].result = trade_result,
                                         ![t].profit_rate = profit_rate]
                   /\ tr' = [tr EXCEPT ![t] =
                         [q EXCEPT !.declared = data[t].result,
                                   !.exit = loc[t].exit_price,
                                   !.entry = entry_price, !.lev = leverage,
                                   !.tp = IF AdvisoryMatches(symbol)
                                          THEN current_position.tp_price ELSE 0,
                                   !.trade = trade_result, !.rate = profit_rate]]
                   /\ pc' = [pc EXCEPT ![t] = "x_total"]
                   /\ UNCHANGED <<position_lock, orders, data, lastLev, res>>
    /\ UNCHANGED <<current_position, stats, snapshot, ext, cmd, nSignals,
                   saved, calc, since>>

\* stats.add_trade: self.total_trades += 1
AddTradeTotal(t) ==
    /\ pc[t] = "x_total"
    /\ stats' = add_trade_total(stats)
    /\ tr' = [tr EXCEPT ![t].mut = @ + 1]
    /\ pc' = [pc EXCEPT ![t] = "x_count"]
    /\ UNCHANGED <<data, loc, position_lock, current_position, snapshot,
                   orders, ext, cmd, res, lastLev, nSignals, saved, calc,
                   since>>

\* stats.add_trade: self.wins += 1 or self.losses += 1
AddTradeCount(t) ==
    /\ pc[t] = "x_count"
    /\ stats' = add_trade_count(stats, loc[t].result)
    /\ pc' = [pc EXCEPT ![t] = "x_append"]
    /\ UNCHANGED <<data, loc, position_lock, current_position, snapshot,
                   orders, ext, cmd, tr, res, lastLev, nSignals, saved, calc,
                   since>>

\* stats.add_trade: self.trades_history.append(...)
AddTradeAppend(t) ==
    /\ pc[t] = "x_append"
    /\ stats' = add_trade_append(stats, loc[t].result, loc[t].profit_rate,
                                 data[t].symbol)
    /\ pc' = [pc EXCEPT ![t] = "x_save"]
    /\ UNCHANGED <<data, loc, position_lock, current_position, snapshot,
                   orders, ext, cmd, tr, res, lastLev, nSignals, saved, calc,
                   since>>

\* stats.save(): open(STATS_FILE, 'wb') empties the file
ExitSaveOpen(t) ==
    /\ pc[t] = "x_save"
    /\ snapshot' = EmptyFile
    /\ pc' = [pc EXCEPT ![t] = "x_dump"]
    /\ UNCHANGED <<data, loc, position_lock, current_position, stats, orders,
                   ext, cmd, tr, res, lastLev, nSignals, saved, calc, since>>

\* stats.save(): pickle.dump; then the notification, clearing the advisory
\* record, and the return
ExitSave_KeepsContext(t) ==
    /\ pc[t] = "x_dump"
    /\ snapshot' = save(stats)
    /\ saved' = stats
    /\ current_position' = [NoPosition EXCEPT !.symbol = data[t].symbol,
                                              !.entry_price = loc[t].entry_price,
                                              !.leverage = loc[t].leverage]
    /\ Finish(t, [tr[t] EXCEPT !.advW = @ + 1], "success", "", 1)
    /\ orders' = MarkExited(orders)
    /\ since' = [recorded |-> data[t].symbol, entered |-> FALSE]
    /\ UNCHANGED <<stats, ext, cmd, nSignals, calc>>
ExitSave_ClosesAll(t) ==
    /\ pc[t] = "x_dump"
    /\ snapshot' = save(stats)
    /\ saved' = stats
    /\ current_position' = NoPosition
    /\ Finish(t, [tr[t] EXCEPT !.advW = @ + 1,
                               !.calls = @ \cup {"close_all_positions"}],
              "success", "", 1)
    /\ orders' = MarkExited(orders)
    /\ since' = [recorded |-> data[t].symbol, entered |-> FALSE]
    /\ UNCHANGED <<stats, ext, cmd, nSignals, calc>>
ExitSave_NoDump(t) ==
    /\ pc[t] = "x_dump"
    /\ current_position' = NoPosition
    /\ Finish(t, [tr[t] EXCEPT !.advW = @ + 1], "success", "", 1)
    /\ orders' = MarkExited(orders)
    /\ since' = [recorded |-> data[t].symbol, entered |-> FALSE]
    /\ UNCHANGED <<stats, snapshot, saved, ext, cmd, nSignals, calc>>
ExitSave(t) ==
    /\ pc[t] = "x_dump"
    /\ snapshot' = save(stats)
    /\ saved' = stats
    /\ current_position' = NoPosition
    /\ Finish(t, [tr[t] EXCEPT !.advW = @ + 1], "success", "", 1)
    /\ orders' = MarkExited(orders)
    /\ since' = [recorded |-> data[t].symbol, entered |-> FALSE]
    /\ UNCHANGED <<stats, ext, cmd, nSignals, calc>>

----------------------------------------------------------------------------
(* handle_telegram_command: /R, from the polling thread, without the lock *)

\* what the polling thread leaves alone
TelegramFrame ==
    UNCHANGED <<pc, data, loc, position_lock, current_position, orders, ext,
                tr, res, lastLev, calc, since>>

\* the command arrives; stats.reset(): self.wins = 0
TelegramResetWins ==
    /\ cmd = "idle"
    /\ nSignals < MaxSignals
    /\ nSignals' = nSignals + 1
    /\ stats' = [stats EXCEPT !.wins = 0]
    /\ cmd' = "r_losses"
    /\ TelegramFrame
    /\ UNCHANGED <<snapshot, saved>>

\* stats.reset(): self.losses = 0
TelegramResetLosses ==
    /\ cmd = "r_losses"
    /\ stats' = [stats EXCEPT !.losses = 0]
    /\ cmd' = "r_total"
    /\ TelegramFrame
    /\ UNCHANGED <<snapshot, saved, nSignals>>

\* stats.reset(): self.total_trades = 0
TelegramResetTotal ==
    /\ cmd = "r_total"
    /\ stats' = [stats EXCEPT !.total_trades = 0]
    /\ cmd' = "r_history"
    /\ TelegramFrame
    /\ UNCHANGED <<snapshot, saved, nSignals>>

\* stats.reset(): self.trades_history = []
TelegramResetHistory ==
    /\ cmd = "r_history"
    /\ stats' = [stats EXCEPT !.trades_history = <<>>]
    /\ cmd' = "r_save"
    /\ TelegramFrame
    /\ UNCHANGED <<snapshot, saved, nSignals>>

\* stats.save(): open(STATS_FILE, 'wb') empties the file
TelegramSaveOpen ==
    /\ cmd = "r_save"
    /\ snapshot' = EmptyFile
    /\ cmd' = "r_dump"
    /\ TelegramFrame
    /\ UNCHANGED <<stats, saved, nSignals>>

\* stats.save(): pickle.dump; then the reply
TelegramSave ==
    /\ cmd = "r_dump"
    /\ snapshot' = save(stats)
    /\ saved' = stats
    /\ cmd' = "idle"
    /\ TelegramFrame
    /\ UNCHANGED <<stats, nSignals>>

----------------------------------------------------------------------------
(* The process is stopped and started again *)

\* module level: position_lock, current_position and the threads start anew,
\* stats = TradingStats.load(); the file and the exchange stay as they are
Restart ==
    /\ nSignals < MaxSignals
    /\ nSignals' = nSignals + 1
    /\ pc' = [t \in Workers |-> "idle"]
    /\ data' = [t \in Workers |-> NoSignal]
    /\ loc' = [t \in Workers |-> NoLocals]
    /\ position_lock' = NoThread
    /\ current_position' = NoPosition
    /\ stats' = load(snapshot)
    /\ cmd' = "idle"
    /\ tr' = [t \in Workers |-> NoTrace]
    /\ res' = NoTrace
    /\ lastLev' = NoLev
    /\ UNCHANGED <<snapshot, orders, ext, saved, calc, since>>

----------------------------------------------------------------------------
(* The exchange acts on its own *)

\* a resting limit order is filled and becomes (part of) a position
Fill(i) ==
    /\ orders[i].st = "resting"
    /\ orders' = [orders EXCEPT ![i].st = "filled"]
    /\ UNCHANGED <<pc, data, loc, position_lock, current_position, stats,
                   snapshot, ext, cmd, tr, res, lastLev, nSignals, saved,
                   calc, since>>

\* the preset take-profit / stop-loss (or the trader) closes the position
ClosePosition(s) ==
    /\ PosOpen(s)
    /\ ext' = ext \ {s}
    /\ orders' = SelectSeq(
          [i \in 1..Len(orders) |->
              IF orders[i].symbol = s /\ orders[i].st = "filled"
              THEN [orders[i] EXCEPT !.st = "closed"] ELSE orders[i]],
          LAMBDA o : ~(o.st = "closed" /\ o.exited))
    /\ UNCHANGED <<pc, data, loc, position_lock, current_position, stats,
                   snapshot, cmd, tr, res, lastLev, nSignals, saved, calc,
                   since>>

\* the trader opens a position by hand
ExternalOpen(s) ==
    /\ s \notin ext
    /\ ext' = ext \cup {s}
    /\ UNCHANGED <<pc, data, loc, position_lock, current_position, stats,
                   snapshot, orders, cmd, tr, res, lastLev, nSignals, saved,
                   calc, since>>

----------------------------------------------------------------------------

Next ==
    \/ \E t \in Workers : Receive(t)
    \/ \E t \in Workers : EntryAcquire(t)
    \/ \E t \in Workers : EntryGetPositions(t)
    \/ \E t \in Workers : EntrySetLeverage(t)
    \/ \E t \in Workers : EntryGetBalance(t)
    \/ \E t \in Workers : EntryPlaceOrder(t)
    \/ \E t \in Workers : ExitAcquire(t)
    \/ \E t \in Workers : ExitGetPositions(t)
    \/ \E t \in Workers : AddTradeTotal(t)
    \/ \E t \in Workers : AddTradeCount(t)
    \/ \E t \in Workers : AddTradeAppend(t)
    \/ \E t \in Workers : ExitSaveOpen(t)
    \/ \E t \in Workers : ExitSave(t)
    \/ \E i \in 1..Len(orders) : Fill(i)
    \/ \E s \in Symbols : ClosePosition(s)
    \/ \E s \in ExtSymbols : ExternalOpen(s)

Spec == Init /\ [][Next]_vars

\* a request thread's own steps, once its signal is received
Handler(t) ==
    \/ EntryAcquire(t) \/ EntryGetPositions(t) \/ EntrySetLeverage(t)
    \/ EntryGetBalance(t) \/ EntryPlaceOrder(t)
    \/ ExitAcquire(t) \/ ExitGetPositions(t)
    \/ AddTradeTotal(t) \/ AddTradeCount(t) \/ AddTradeAppend(t)
    \/ ExitSaveOpen(t) \/ ExitSave(t)

\* the request threads, with positions opened by hand on the exchange
NextFair ==
    \/ \E t \in Workers : Receive(t)
    \/ \E t \in Workers : Handler(t)
    \/ \E s \in ExtSymbols : ExternalOpen(s)

\* every external call returns (requests' timeout=10) and every thread that
\* can take a step keeps being scheduled
FairSpec == Init /\ [][NextFair]_vars /\ \A t \in Workers : WF_vars(Handler(t))

\* the same with the operator's /R command and restarts of the process
NextOps ==
    \/ Next
    \/ TelegramResetWins
    \/ TelegramResetLosses
    \/ TelegramResetTotal
    \/ TelegramResetHistory
    \/ TelegramSaveOpen
    \/ TelegramSave
    \/ Restart

SpecOps == Init /\ [][NextOps]_vars

----------------------------------------------------------------------------
(* The ledger on its own: TradingStats driven call by call *)

LedgerFrame ==
    UNCHANGED <<pc, data, loc, position_lock, current_position, snapshot,
                orders, ext, cmd, tr, lastLev, nSignals, saved, calc, since>>

\* stats.add_trade(result, profit_rate, symbol), the whole call
AddTrade(result, profit_rate, symbol) ==
    /\ stats.total_trades < MaxTrades
    /\ stats' = add_trade_append(add_trade_count(add_trade_total(stats), result),
                                 result, profit_rate, symbol)
    /\ res' = NoTrace
    /\ LedgerFrame

\* stats.reset(), the whole call
Reset ==
    /\ stats' = reset(stats)
    /\ res' = NoTrace
    /\ LedgerFrame

\* home(): the status route returns stats.get_win_rate()
home ==
    /\ res' = [NoTrace EXCEPT !.action = "HOME", !.win_rate = get_win_rate(stats)]
    /\ stats' = stats
    /\ LedgerFrame

NextLedger ==
    \/ \E r \in {"WIN", "LOSS"}, p \in RateInputs, s \in ExtSymbols : AddTrade(r, p, s)
    \/ Reset
    \/ home

SpecLedger == Init /\ [][NextLedger]_vars

----------------------------------------------------------------------------
(* calculate_leverage on its own *)

\* entry price, and two stop prices at it or on either side of it, the
\* second at least as far from the entry as the first
InitLev ==
    /\ pc = [t \in Workers |-> "idle"]
    /\ data = [t \in Workers |-> NoSignal]
    /\ loc = [t \in Workers |-> NoLocals]
    /\ position_lock = NoThread
    /\ current_position = NoPosition
    /\ snapshot = NoFile
    /\ stats = FreshStats
    /\ saved = FreshStats
    /\ orders = <<>>
    /\ ext = {}
    /\ cmd = "idle"
    /\ tr = [t \in Workers |-> NoTrace]
    /\ res = NoTrace
    /\ lastLev = NoLev
    /\ nSignals = 0
    /\ since = NoSince
    /\ \E e \in LevEntries, k1 \in 0..MaxSteps, k2 \in 0..MaxSteps,
          s1 \in {-1, 1}, s2 \in {-1, 1} :
          /\ k1 <= k2
          /\ calc = [NoCalc EXCEPT !.entry_price = e,
                                   !.sl_near = e + s1 * k1 * Step,
                                   !.sl_far = e + s2 * k2 * Step]

Evaluate ==
    /\ ~calc.done
    /\ calc' = [calc EXCEPT
                   !.near = calculate_leverage(calc.entry_price, calc.sl_near),
                   !.far = calculate_leverage(calc.entry_price, calc.sl_far),
                   !.done = TRUE]
    /\ UNCHANGED <<pc, data, loc, position_lock, current_position, stats,
                   snapshot, orders, ext, cmd, tr, res, lastLev, nSignals,
                   saved, since>>

NextLev == Evaluate

SpecLev == InitLev /\ [][NextLev]_vars

----------------------------------------------------------------------------
(* Claims *)

InTransition ==
    {"e_getpos", "e_setlev", "e_balance", "e_order",
     "x_getpos", "x_total", "x_count", "x_append", "x_save", "x_dump"}

Mutations == {"set_leverage", "place_order"}

\* the system's orders still on the exchange (resting or filled into an open
\* position) that no processed EXIT has followed
Outstanding ==
    {i \in 1..Len(orders) : orders[i].st \in {"resting", "filled"} /\ ~orders[i].exited}

\* C1: the system never places an entry order while an order it placed
\* earlier is still outstanding (resting or filled) and no EXIT has been
\* processed in between: at most one such order exists at any time.
C1_AtMostOneOutstanding == Cardinality(Outstanding) <= 1

\* C2: whenever the exchange's position listing for the signal's symbol
\* returns at least one entry, ENTRY ends ignored with reason "position
\* exists on exchange" and calls neither set_leverage nor place_limit_order,
\* whatever the advisory record holds.
C2_ExchangePositionBlocksEntry ==
    /\ \A t \in Workers :
          (tr[t].action = "ENTRY" /\ tr[t].posQ = "nonempty") => pc[t] \notin InTransition
    /\ (res.action = "ENTRY" /\ res.posQ = "nonempty") =>
          /\ res.status = "ignored"
          /\ res.reason = "position_exists_on_exchange"
          /\ res.calls \cap Mutations = {}

\* an ENTRY was ignored on the exchange's listing while the advisory record
\* was for another symbol
C2_Witness ==
    /\ res.action = "ENTRY" /\ res.posQ = "nonempty" /\ res.status = "ignored"
    /\ current_position # NoPosition
    /\ current_position.symbol # res.symbol

\* thread t takes a step of its handler inside the lock's block: an exchange
\* call, or a write to the advisory record or the ledger
HandlerStep(t) == pc[t] \in InTransition /\ pc'[t] # pc[t]

\* C3: at most one ENTRY or EXIT signal is inside its transition at any time:
\* whenever a signal makes an exchange call or writes the advisory record or
\* the ledger, it holds the lock and no other signal is between its position
\* check and the end of its processing.
C3_OneSignalInTransition ==
    [][\A t \in Workers :
          HandlerStep(t) =>
             /\ position_lock = t
             /\ \A u \in Workers \ {t} : pc[u] \notin InTransition /\ pc'[u] = pc[u]]_vars

\* one signal is in its transition while another waits for the lock
C3_Witness ==
    \E t, u \in Workers :
        /\ pc[t] \in InTransition /\ "get_positions" \in tr[t].calls
        /\ pc[u] \in {"e_lock", "x_lock"}

\* C4: if the set_leverage call fails during ENTRY, the ENTRY ends as a
\* failure, place_limit_order is never called in that transition and no
\* advisory record is stored.
C4_LeverageFailureAborts ==
    (res.action = "ENTRY" /\ res.levQ = "fail") =>
        /\ res.status = "error"
        /\ "place_order" \notin res.calls
        /\ res.advW = 0

\* C5: if the position-listing query itself fails during ENTRY, the ENTRY is
\* aborted and reported as failed, and neither set_leverage nor
\* place_limit_order is called.
C5_FailedPositionQueryAborts ==
    (res.action = "ENTRY" /\ res.posQ = "fail") =>
        /\ res.status = "error"
        /\ res.calls \cap Mutations = {}

\* C6: every place_limit_order call is preceded, within the same ENTRY
\* transition, by a set_leverage call for the same symbol and the same
\* leverage as the order's, and no other set_leverage call lies between.
C6_LeverageSetBeforeOrder ==
    "place_order" \in res.calls =>
        /\ "set_leverage" \in res.calls
        /\ res.ordSeen = [by |-> res.by, symbol |-> res.ordArg.symbol,
                          leverage |-> res.ordArg.leverage]
        /\ res.ordArg.symbol = res.symbol

\* an order was placed after this transition's set_leverage call (here one
\* whose request had failed: the claim is about the call being made)
C6_Witness ==
    /\ res.status = "success" /\ "place_order" \in res.calls
    /\ res.levQ = "fail"

\* C7: when the balance fetched during ENTRY is below the minimum (10), the
\* ENTRY fails with an error and neither set_leverage nor place_limit_order
\* has been called in that transition.
C7_LowBalanceNoMutation ==
    (res.action = "ENTRY" /\ "get_balance" \in res.calls /\ res.bal < MIN_BALANCE) =>
        /\ res.status = "error"
        /\ res.calls \cap Mutations = {}

\* C8: an ENTRY whose derived leverage floor(max_loss_ratio / risk_percent)
\* exceeds the cap is rejected with reason "leverage too high", and no
\* balance query, set_leverage or place_limit_order call is made.
C8_OverCapRejected ==
    /\ \A t \in Workers : tr[t].derived > MAX_LEVERAGE => pc[t] \notin InTransition
    /\ (res.action = "ENTRY" /\ res.derived > MAX_LEVERAGE) =>
          /\ res.status = "rejected"
          /\ res.reason = "leverage_too_high"
          /\ res.calls \cap (Mutations \cup {"get_balance"}) = {}

Recorded == res.action = "EXIT" /\ res.status = "success"

\* the record the ledger holds last
LastTrade == stats.trades_history[Len(stats.trades_history)]

\* C11 as written: an EXIT that recorded a trade with a take-profit price on
\* record classified it WIN exactly when the declared result is 'profit' in
\* any case or the exit price is at or above that take-profit price
C11_WinIffProfitOrTakeProfit ==
    (Recorded /\ res.tp # 0) =>
        (res.trade = "WIN" <=>
            (upper(res.declared) = "PROFIT" \/ res.exit >= res.tp))

\* C11 amended: an EXIT that recorded a trade classified it WIN exactly when
\* the declared result is 'profit' in any case or the exit price is at or
\* above the entry price it settled on, LOSS otherwise, and that is the result
\* the ledger's last record carries
C11_WinIffProfitOrAboveEntry ==
    Recorded =>
        /\ res.trade = (IF upper(res.declared) = "PROFIT" \/ res.exit >= res.entry
                        THEN "WIN" ELSE "LOSS")
        /\ stats.trades_history # <<>>
        /\ LastTrade.result = res.trade

\* an EXIT declared LOSS, above the entry price and below the take-profit
\* price on record, was recorded as WIN
C11_Witness ==
    /\ Recorded
    /\ res.declared = "LOSS"
    /\ res.entry <= res.exit /\ res.exit < res.tp
    /\ res.trade = "WIN"

\* C15: the profit rate an EXIT records is (exit - entry) / entry * 100 *
\* leverage, here in hundredths of a percent and cut to a whole number of
\* them; entry 100, exit 110 at leverage 3 records 30 percent and WIN
C15_ProfitRateFormula ==
    Recorded =>
        /\ res.entry > 0
        /\ res.entry * res.rate <= (res.exit - res.entry) * 10000 * res.lev
        /\ (res.exit - res.entry) * 10000 * res.lev < res.entry * (res.rate + 1)
        /\ stats.trades_history # <<>>
        /\ LastTrade.profit_rate = res.rate
        /\ (res.entry = 10000 /\ res.exit = 11000 /\ res.lev = 3) =>
               (res.rate = 3000 /\ res.trade = "WIN")

\* entry 100, exit 110, leverage 3 has been recorded
C15_Witness ==
    /\ Recorded
    /\ res.entry = 10000 /\ res.exit = 11000 /\ res.lev = 3
    /\ res.rate = 3000 /\ res.trade = "WIN"
    /\ LastTrade.profit_rate = 3000

\* C16: a signal that ended ignored, rejected or in error sent at least one
\* notification to the operator
C16_FailureNotifies ==
    (res.status \in {"ignored", "rejected", "error"}) => res.notes >= 1

\* positions of a request thread between add_trade's first statement and the
\* end of save, and of one waiting for the lock
LedgerSection == {"x_total", "x_count", "x_append", "x_save", "x_dump"}
Waiting == {"e_lock", "x_lock"}

\* C12: the operator's reset is never under way while an EXIT is between
\* its add_trade and the end of its save
C12_ResetNeverInsideExit ==
    \A t \in Workers : pc[t] \in LedgerSection => cmd = "idle"

\* no EXIT is past taking the lock and no reset is under way
Quiescent ==
    /\ cmd = "idle"
    /\ \A t \in Workers : pc[t] \notin {"x_getpos"} \cup LedgerSection

ResetStep ==
    \/ TelegramResetWins \/ TelegramResetLosses
    \/ TelegramResetTotal \/ TelegramResetHistory

\* no counter is lower and the history keeps its records in place
Grows ==
    /\ stats'.wins >= stats.wins
    /\ stats'.losses >= stats.losses
    /\ stats'.total_trades >= stats.total_trades
    /\ Len(stats'.trades_history) >= Len(stats.trades_history)
    /\ \A i \in 1..Len(stats.trades_history) :
          stats'.trades_history[i] = stats.trades_history[i]

\* C14: in a running process no step of an ENTRY or EXIT lowers a counter of
\* the ledger or removes or moves a record of its history; a step that does
\* is a statement of the operator's reset (or the process starting again
\* from its file)
C14_LedgerMonotonic == [][~Grows => (ResetStep \/ Restart)]_vars

\* two trades are on record, in the order they were added
C14_Witness ==
    /\ stats.total_trades = 2
    /\ Len(stats.trades_history) = 2
    /\ stats.trades_history[1] # stats.trades_history[2]

\* C17: every signal received, waiting for the lock or inside its
\* transition, eventually returns, and its thread does not hold the lock then
C17_EverySignalReturns ==
    \A t \in Workers :
        (pc[t] # "idle") ~> (pc[t] = "idle" /\ position_lock # t)

\* a signal waits for the lock while the holder is at its last step
C17_Witness ==
    \E t, u \in Workers :
        /\ position_lock = t /\ pc[t] \in {"e_order", "x_dump"}
        /\ pc[u] \in Waiting

C19_StartLoadsSnapshot ==
    [][Restart => stats' = (IF snapshot.kind = "written"
                            THEN saved ELSE FreshStats)]_vars

\* the process has started again from a file that holds a trade
C19_Witness ==
    /\ \A t \in Workers : pc[t] = "idle"
    /\ res = NoTrace
    /\ snapshot.kind = "written"
    /\ stats = saved /\ stats.total_trades = 1

\* C20: with the stop off the entry price, the leverage derived is between 1
\* and MAX_LEVERAGE, and the stop farther from the same entry price never
\* gets the higher leverage
C20_LeverageBoundedMonotone ==
    (calc.done /\ calc.sl_near # calc.entry_price) =>
        /\ calc.near \in 1..MAX_LEVERAGE
        /\ calc.far \in 1..MAX_LEVERAGE
        /\ calc.far <= calc.near

\* two stops with strictly different leverages, both off the clamps
C20_Witness ==
    /\ calc.done
    /\ Abs(calc.entry_price - calc.sl_near) < Abs(calc.entry_price - calc.sl_far)
    /\ 1 < calc.far /\ calc.far < calc.near /\ calc.near < MAX_LEVERAGE

\* C21: with the stop at the entry price the leverage derived is exactly 1
C21_ZeroRiskLeverageIsOne ==
    calc.done =>
        /\ calc.sl_near = calc.entry_price => calc.near = 1
        /\ calc.sl_far = calc.entry_price => calc.far = 1

\* the stop at the entry price has been evaluated, next to a stop off it
\* that gets more than 1
C21_Witness ==
    /\ calc.done
    /\ calc.sl_near = calc.entry_price /\ calc.near = 1
    /\ calc.sl_far # calc.entry_price /\ calc.far > 1

\* the ENTRY that ended last sent an order
OrderSent == res.action = "ENTRY" /\ "place_order" \in res.calls

\* C22: the size ENTRY sends (thousandths) is balance * 0.95 * leverage /
\* entry price to the nearest thousandth, for the leverage it derived and
\* sent; entry 100, stop 95, balance 1000 gives leverage 3, notional 2850
\* and size 28.500.  Prices are whole units here, so the comparison is made
\* in units of the price.
C22_OrderSize ==
    OrderSent =>
        LET units == res.ordPrice \div 100
            exact == res.bal * SAFETY_PERCENT * res.ordArg.leverage * 10
        IN /\ res.ordPrice % 100 = 0
           /\ 2 * Abs(res.ordSize * units - exact) <= units
           /\ res.ordArg.leverage = Max(1, Min(res.derived, MAX_LEVERAGE))
           /\ (res.ordPrice = 10000 /\ res.derived = 3 /\ res.bal = 1000) =>
                  /\ res.ordArg.leverage = 3
                  /\ ((res.bal * SAFETY_PERCENT) \div 100) * res.ordArg.leverage = 2850
                  /\ res.ordSize = 28500

\* the order of the example has been placed and recorded
C22_Witness ==
    /\ OrderSent /\ res.status = "success"
    /\ res.ordPrice = 10000 /\ res.derived = 3 /\ res.bal = 1000
    /\ res.ordSize = 28500
    /\ current_position.size = 28500 /\ current_position.leverage = 3

\* C23: the win rate returned is 0 on a ledger with no trades and
\* wins / total * 100 otherwise (hundredths of a percent, cut to a whole
\* number of them); one WIN and one LOSS give 50
C23_WinRate ==
    res.action = "HOME" =>
        /\ stats.total_trades = 0 => res.win_rate = 0
        /\ stats.total_trades > 0 =>
              /\ stats.total_trades * res.win_rate <= stats.wins * 10000
              /\ stats.wins * 10000 < stats.total_trades * (res.win_rate + 1)
        /\ (stats.wins = 1 /\ stats.losses = 1 /\ stats.total_trades = 2) =>
              res.win_rate = 5000

\* the win rate of a ledger with one WIN and one LOSS has been returned
C23_Witness ==
    /\ res.action = "HOME" /\ res.win_rate = 5000
    /\ stats.wins = 1 /\ stats.losses = 1
    /\ Len(stats.trades_history) = 2

\* positions of a request thread inside execute_entry_trade's block
EntrySection == {"e_getpos", "e_setlev", "e_balance", "e_order"}

\* C24: while an ENTRY is in its transition the ledger is not written, and
\* the advisory record changes only in the step where place_limit_order
\* returned an order id and the ENTRY ends in success; an ENTRY ending
\* ignored, rejected or in error leaves both as they were
C24_RecordWrittenOnlyOnSuccess ==
    [][\A t \in Workers : pc[t] \in EntrySection =>
          /\ stats' = stats
          /\ current_position' # current_position =>
                /\ pc[t] = "e_order"
                /\ res'.by = t /\ res'.status = "success"
                /\ "place_order" \in res'.calls
          /\ (pc'[t] = "idle" /\ res'.status # "success") =>
                current_position' = current_position]_vars

\* an ENTRY whose order placement failed after its leverage was set has
\* ended in error with the record of an earlier ENTRY still in place
C24_Witness ==
    /\ res.action = "ENTRY" /\ res.status = "error"
    /\ res.levQ = "ok" /\ "place_order" \in res.calls
    /\ res.advW = 0
    /\ current_position # NoPosition

\* C25: an EXIT that records a trade uses, for the entry price and for the
\* leverage separately, the value the listing supplied when it supplied one,
\* and otherwise the value of the advisory record, which is then for the
\* EXIT's symbol
C25_ExchangeFirstThenRecord ==
    \A t \in Workers : pc[t] \in LedgerSection =>
        /\ tr[t].entry = (IF tr[t].qEntry # 0 THEN tr[t].qEntry
                          ELSE current_position.entry_price)
        /\ tr[t].lev = (IF tr[t].supLev # 0 THEN tr[t].supLev
                        ELSE current_position.leverage)
        /\ (tr[t].qEntry = 0 \/ tr[t].supLev = 0) =>
               current_position.symbol = tr[t].symbol

\* C26: an EXIT makes no exchange call other than the position listing, on
\* any path and at any point of its transition
C26_ExitOnlyReadsExchange ==
    /\ res.action = "EXIT" => res.calls \subseteq {"get_positions"}
    /\ \A t \in Workers :
          tr[t].action = "EXIT" => tr[t].calls \subseteq {"get_positions"}

\* an EXIT has recorded a trade having made the listing call only
C26_Witness ==
    /\ Recorded
    /\ res.calls = {"get_positions"}
    /\ res.mut = 1 /\ res.advW = 1

\* the records of the history with result WIN
WinRecords ==
    {i \in 1..Len(stats.trades_history) : stats.trades_history[i].result = "WIN"}

\* C27: whenever no EXIT and no reset is in progress, total_trades = wins +
\* losses = length of the history, and wins is the number of WIN records
C27_LedgerConsistent ==
    Quiescent =>
        /\ stats.total_trades = stats.wins + stats.losses
        /\ stats.total_trades = Len(stats.trades_history)
        /\ stats.wins = Cardinality(WinRecords)

\* C28: an EXIT for the symbol of the latest EXIT that recorded a trade,
\* with no ENTRY having succeeded since and no position listed for the
\* symbol, adds nothing to the ledger
C28_TradeCountedOnce ==
    (/\ res.action = "EXIT" /\ res.status # ""
     /\ res.begun.recorded = res.symbol /\ ~res.begun.entered
     /\ res.posQ # "nonempty") =>
        /\ res.mut = 0
        /\ res.status # "success"

\* a second EXIT for the symbol of a recorded trade, finding no position
\* listed, has ended without touching the ledger and its one record
C28_Witness ==
    /\ res.action = "EXIT" /\ res.status = "warning"
    /\ res.begun.recorded = res.symbol /\ ~res.begun.entered
    /\ res.posQ = "empty"
    /\ res.mut = 0
    /\ stats.total_trades = 1 /\ Len(stats.trades_history) = 1

====
